---------------------------- MODULE Spec2Model ----------------------------
(***************************************************************************)
(* A model of termesh's drawille Canvas (src/src/drawille/mod.rs), its     *)
(* Line stepper (src/src/drawille/line.rs) and the Rows serializer.        *)
(*                                                                         *)
(* Numbers.  The program computes with f32.  The model keeps every f32 as  *)
(* the rational <<n, d>> it stands for (d > 0, lowest terms) and rounds    *)
(* the result of every f32 operation to 24 significant bits, so that       *)
(* rounding, flooring, remainders, divisions and the error a stepper       *)
(* accumulates are computed and not assumed.  i32 values keep their width: *)
(* the row counter of Rows overflows at I32Max.                            *)
(***************************************************************************)
EXTENDS Integers, Sequences, FiniteSets, TLC

(***************************************************************************)
(* Bounds of the model.                                                    *)
(***************************************************************************)
\* at most this many calls are made on the canvas
MaxCalls == 3
\* an iterator is driven for at most this many lines
MaxOut == 5

(***************************************************************************)
(* Option<T>: None is the empty sequence, Some(v) the one-element one.     *)
(***************************************************************************)
None == << >>
Some(v) == << v >>

(***************************************************************************)
(* Numbers.  An f32 is the rational << n, d >> it stands for (d > 0,       *)
(* lowest terms).  RAdd, RSub, RMul, RDiv are the exact operations on      *)
(* rationals; FAdd, FSub, FMul, FDiv are those of f32: the exact result    *)
(* rounded to the nearest number with a 24 bit significand, ties to even.  *)
(* The numbers of the model stay far from the ends of the exponent range,  *)
(* so neither overflow nor subnormal numbers are modelled.                 *)
(***************************************************************************)
Abs(n) == IF n < 0 THEN -n ELSE n

RECURSIVE Gcd(_, _)
Gcd(a, b) == IF b = 0 THEN a ELSE Gcd(b, a % b)

\* the rational n/d in lowest terms, d > 0
Rat(n, d) == LET g == Gcd(Abs(n), d) IN << n \div g, d \div g >>

Int2Rat(n) == << n, 1 >>

\* exact sum, difference, product and quotient (the common factors are
\* taken out first, to keep the 32 bit integers of the checker from
\* overflowing)
RAdd(a, b) ==
    LET g == Gcd(a[2], b[2])
    IN Rat(a[1] * (b[2] \div g) + b[1] * (a[2] \div g), (a[2] \div g) * b[2])
RSub(a, b) ==
    LET g == Gcd(a[2], b[2])
    IN Rat(a[1] * (b[2] \div g) - b[1] * (a[2] \div g), (a[2] \div g) * b[2])
RMul(a, b) ==
    LET g1 == Gcd(Abs(a[1]), b[2])
        g2 == Gcd(Abs(b[1]), a[2])
    IN IF a[1] = 0 \/ b[1] = 0 THEN << 0, 1 >>
       ELSE << (a[1] \div g1) * (b[1] \div g2), (a[2] \div g2) * (b[2] \div g1) >>
\* a / b for b # 0
RDiv(a, b) ==
    IF b[1] > 0 THEN RMul(a, << b[2], b[1] >>)
                ELSE RMul(a, << -b[2], -b[1] >>)
RAbs(a) == << Abs(a[1]), a[2] >>
RLt(a, b) ==
    LET g == IF a[2] = 0 \/ b[2] = 0 THEN 1 ELSE Gcd(a[2], b[2])
    IN a[1] * (b[2] \div g) < b[1] * (a[2] \div g)

RECURSIVE TwoPow(_)
TwoPow(k) == IF k = 0 THEN 1 ELSE 2 * TwoPow(k - 1)

\* n / d scaled into [1, 2): << n1, d1, e >> with n / d = (n1 / d1) * 2^e
\* and d1 <= n1 < 2 * d1, for n, d > 0
RECURSIVE Normalize(_, _, _)
Normalize(n, d, e) ==
    IF n < d THEN Normalize(2 * n, d, e - 1)
    ELSE IF n - d >= d THEN Normalize(n, 2 * d, e + 1)
    ELSE << n, d, e >>

\* k more bits of the quotient by long division: r is the remainder so far
\* (r < d), m the bits so far; the result is << bits, remainder >>
RECURSIVE Significand(_, _, _, _)
Significand(r, d, m, k) ==
    IF k = 0 THEN << m, r >>
    ELSE IF r >= d - r THEN Significand(r - (d - r), d, 2 * m + 1, k - 1)
    ELSE Significand(2 * r, d, 2 * m, k - 1)

\* m * 2^(-k) in lowest terms, for k >= 0
RECURSIVE Scaled(_, _)
Scaled(m, k) == IF k > 0 /\ m % 2 = 0 THEN Scaled(m \div 2, k - 1)
                ELSE << m, TwoPow(k) >>

\* the 24 bit significand m rounded by the remainder r of the division by
\* d: up when more than a half is left, or a half and m is odd (ties to even)
RoundUp(m, r, d) ==
    IF r > d - r \/ (r = d - r /\ m % 2 = 1) THEN m + 1 ELSE m

\* m * 2^e in lowest terms
TimesTwoPow(m, e) == IF e >= 0 THEN << m * TwoPow(e), 1 >> ELSE Scaled(m, -e)

\* the f32 of the significand and remainder mr = << m, r >> of a division by
\* d, at the exponent e of the last bit
FromBits(mr, d, e) == TimesTwoPow(RoundUp(mr[1], mr[2], d), e)

\* the f32 nearest to (n / d) * 2^e for nde = << n, d, e >>, d <= n < 2 * d
FromNormal(nde) ==
    FromBits(Significand(nde[1] - nde[2], nde[2], 1, 23), nde[2], nde[3] - 23)

\* the f32 nearest to the rational n / d, n, d > 0 (ties to even)
RoundToF32(n, d) == FromNormal(Normalize(n, d, 0))

\* the powers of two up to 2^30
PowersOfTwo == { TwoPow(k) : k \in 0 .. 30 }

\* v or -v, as s is 1 or -1
Signed(s, v) == << s * v[1], v[2] >>

\* the f32 nearest to the rational a; a number with a power of two as its
\* denominator and a numerator below 2^24 is an f32 already
F32(a) ==
    IF a[2] \in PowersOfTwo /\ Abs(a[1]) < 16777216 THEN a
    ELSE Signed(IF a[1] > 0 THEN 1 ELSE -1, RoundToF32(Abs(a[1]), a[2]))

\* the f32 operators +, -, * and /
FAdd(a, b) == F32(RAdd(a, b))
FSub(a, b) == F32(RSub(a, b))
FMul(a, b) == F32(RMul(a, b))
FDiv(a, b) == F32(RDiv(a, b))
\* f32::NAN, as the depth of a point: every comparison with it is false
NaN == << 0, 0 >>
IsNaN(a) == a[2] = 0

\* f32::min, f32::max: when one argument is NaN the other one is returned
RMin(a, b) == IF IsNaN(a) THEN b ELSE IF RLt(b, a) THEN b ELSE a
RMax(a, b) == IF IsNaN(a) THEN b ELSE IF RLt(a, b) THEN b ELSE a

\* f32::round: to the nearest integer, halves away from zero
RoundF(a) ==
    LET n == Abs(a[1])
        q == n \div a[2]
        r == n % a[2]
        m == IF r >= a[2] - r THEN q + 1 ELSE q
    IN IF a[1] >= 0 THEN m ELSE -m

\* f32::floor of n / d for integers n and d > 0 (\div rounds down)
FloorDiv(n, d) == n \div d

\* the % of Rust on numbers: the remainder has the sign of the dividend
Rem(n, d) == IF n >= 0 THEN n % d ELSE -((-n) % d)

(***************************************************************************)
(* u8 bit operations.                                                      *)
(***************************************************************************)
RECURSIVE BitAnd(_, _)
BitAnd(a, b) == IF a = 0 \/ b = 0 THEN 0
                ELSE (a % 2) * (b % 2) + 2 * BitAnd(a \div 2, b \div 2)

RECURSIVE BitOr(_, _)
BitOr(a, b) == IF a = 0 THEN b
               ELSE IF b = 0 THEN a
               ELSE (IF a % 2 = 1 \/ b % 2 = 1 THEN 1 ELSE 0)
                    + 2 * BitOr(a \div 2, b \div 2)

(***************************************************************************)
(* Vector3.                                                                *)
(***************************************************************************)
Vector3(x, y, z) == [x |-> x, y |-> y, z |-> z]

\* Vector3::round
VRound(p) == Vector3(Int2Rat(RoundF(p.x)), Int2Rat(RoundF(p.y)),
                     Int2Rat(RoundF(p.z)))
VAdd(p, q) == Vector3(FAdd(p.x, q.x), FAdd(p.y, q.y), FAdd(p.z, q.z))
VSub(p, q) == Vector3(FSub(p.x, q.x), FSub(p.y, q.y), FSub(p.z, q.z))
VDiv(p, f) == Vector3(FDiv(p.x, f), FDiv(p.y, f), FDiv(p.z, f))

(***************************************************************************)
(* Quantization: user space to cell and dot.                               *)
(***************************************************************************)
BRAILLE_PATTERN_BLANK == 10240

BRAILLE_OFFSET_MAP ==
    << << 1, 8 >>, << 2, 16 >>, << 4, 32 >>, << 64, 128 >> >>

\* braille_offset_at taking the size of a negative remainder as the offset
braille_offset_atAbs(x, y) ==
    BRAILLE_OFFSET_MAP[Abs(Rem(RoundF(y), 4)) + 1][Abs(Rem(RoundF(x), 2)) + 1]

braille_offset_at(x, y) ==
    LET xr == Rem(RoundF(x), 2)
        xoff == IF xr < 0 THEN xr + 2 ELSE xr
        yr == Rem(RoundF(y), 4)
        yoff == IF yr < 0 THEN yr + 4 ELSE yr
    IN BRAILLE_OFFSET_MAP[yoff + 1][xoff + 1]

\* pos with the division truncated (a cast) instead of floored
posTruncates(x, y) ==
    << IF RoundF(x) >= 0 THEN RoundF(x) \div 2 ELSE -((-RoundF(x)) \div 2),
       IF RoundF(y) >= 0 THEN RoundF(y) \div 4 ELSE -((-RoundF(y)) \div 4) >>

\* Canvas::pos: << column, row >>
pos(x, y) == << FloorDiv(RoundF(x), 2), FloorDiv(RoundF(y), 4) >>

(***************************************************************************)
(* The state.                                                              *)
(*   rows, zrange   the two fields of Canvas: rows maps a row key to a map *)
(*                  from column key to Pixel; zrange is an Option          *)
(*   it, out, collected, panicked                                          *)
(*                  a live Rows iterator (an Option, it borrows the        *)
(*                  canvas), the lines it has yielded, whether its next()  *)
(*                  has returned None, and whether the thread panicked     *)
(*   setlog, zseen  history: the points handed to set since the last       *)
(*                  clear, and the z of every point ever handed to set     *)
(*   call           history: the call that made the live iterator, "rows"  *)
(*                  or "frame", and the iterator as that call returned it  *)
(*   ncalls         the number of calls made on the canvas                 *)
(*   stepper, samples, exhausted, ends                                     *)
(*                  a Line stepper driven by hand (an Option), the samples *)
(*                  its next() has returned, whether its next() has        *)
(*                  returned None, and history: the endpoints Line::new    *)
(*                  was called with                                        *)
(*   shape          history: the one drawing call made on a new canvas, an *)
(*                  Option of its name and its vertices                    *)
(*   input, parsed, checked, draws                                         *)
(*                  a scene description: its lines (an Option), what       *)
(*                  parse_module returned for them, what type_check        *)
(*                  returned for the module, and history: the drawing      *)
(*                  calls render made (Options, None before the call)      *)
(*   reader, stl    a binary mesh: the reader handed to parse_binary as it *)
(*                  is left by the call, and what the call returned        *)
(***************************************************************************)
VARIABLES rows, zrange, it, out, collected, panicked, setlog, zseen, call,
          ncalls, stepper, samples, exhausted, ends, shape, input, parsed,
          checked, draws, reader, stl

\* the canvas, its iterator and their history
canvasVars == << rows, zrange, it, out, collected, panicked, setlog, zseen,
                call, ncalls >>

\* a Line stepper driven on its own, and a single shape drawn on a new canvas
pureVars == << stepper, samples, exhausted, ends, shape >>

\* a scene description and a binary mesh read from files
fileVars == << input, parsed, checked, draws, reader, stl >>

vars == << canvasVars, pureVars, fileVars >>

\* the Canvas as a value
Canvas(rs, zr) == [rows |-> rs, zrange |-> zr]
self == Canvas(rows, zrange)

\* BTreeMap: a function whose domain is the set of keys
EmptyMap == << >>
MapInsert(m, k, v) == [x \in (DOMAIN m) \cup {k} |-> IF x = k THEN v ELSE m[x]]

Pixel(bo, z) == [braille_offset |-> bo, z |-> z]

\* Canvas::new
new == Canvas(EmptyMap, None)

\* the zrange after a set of a point with depth z
SetZrange(zr, z) ==
    IF zr = None THEN Some(<< z, z >>)
    ELSE Some(<< RMin(zr[1][1], z), RMax(zr[1][2], z) >>)

\* SetEntry with the depth overwritten instead of folded with min
SetEntryOverwritesZ(row, c, braille_offset, z) ==
    IF c \in DOMAIN row
    THEN Pixel(BitOr(row[c].braille_offset, braille_offset), z)
    ELSE Pixel(braille_offset, z)

\* the entry of row for column c after a set of dot braille_offset at depth z
SetEntry(row, c, braille_offset, z) ==
    IF c \in DOMAIN row
    THEN Pixel(BitOr(row[c].braille_offset, braille_offset), RMin(row[c].z, z))
    ELSE Pixel(braille_offset, z)

\* Canvas::set
set(cv, p) ==
    LET cr == pos(p.x, p.y)
        c == cr[1]
        r == cr[2]
        braille_offset == braille_offset_at(p.x, p.y)
        row == IF r \in DOMAIN cv.rows THEN cv.rows[r] ELSE EmptyMap
    IN Canvas(MapInsert(cv.rows, r,
                        MapInsert(row, c, SetEntry(row, c, braille_offset, p.z))),
              SetZrange(cv.zrange, p.z))

\* clear that empties every row and keeps the row entries
clearKeepsRowEntries(cv) ==
    Canvas([r \in DOMAIN cv.rows |-> EmptyMap], cv.zrange)

\* clear that clears nothing
clearNothing(cv) == cv

\* clear that also forgets the zrange
clearResetsZrange(cv) == Canvas(EmptyMap, None)

\* Canvas::clear
clear(cv) == Canvas(EmptyMap, cv.zrange)

\* Canvas::is_set
is_set(cv, x, y) ==
    LET dot_index == braille_offset_at(x, y)
        cr == pos(x, y)
    IN /\ cr[2] \in DOMAIN cv.rows
       /\ cr[1] \in DOMAIN cv.rows[cr[2]]
       /\ BitAnd(cv.rows[cr[2]][cr[1]].braille_offset, dot_index) # 0

\* the canvas after the calls set(ps[i]), ..., set(ps[Len(ps)]), in this order
\* (zrange is Some after any set: the test makes TLC compute each canvas
\* before it goes on to the next point)
RECURSIVE SetFrom(_, _, _)
SetFrom(cv, ps, i) ==
    IF i > Len(ps) THEN cv
    ELSE LET next == set(cv, ps[i])
         IN IF next.zrange # None THEN SetFrom(next, ps, i + 1) ELSE next

SetAll(cv, ps) == SetFrom(cv, ps, 1)

Range(s) == {s[i] : i \in DOMAIN s}

(***************************************************************************)
(* The Line stepper (line.rs).  The accumulator p0 += step is an f32       *)
(* addition: its rounding error adds up from sample to sample.             *)
(***************************************************************************)
Line(p0, step, steps) == [p0 |-> p0, step |-> step, steps |-> steps]

\* Line::new with the + 1 of the number of samples left out
LineNewNoPlusOne(p0, p1) ==
    LET dir == VSub(p1, p0)
        steps == RMax(RMax(RAbs(dir.x), RAbs(dir.y)), RAbs(dir.z))
    IN IF steps = Int2Rat(0)
       THEN Line(p0, Vector3(Int2Rat(0), Int2Rat(0), Int2Rat(0)), 1)
       ELSE Line(p0, VDiv(dir, steps), Abs(RoundF(steps)))

\* Line::new with the step taken from the absolute deltas
LineNewAbsStep(p0, p1) ==
    LET dir == VSub(p1, p0)
        steps == RMax(RMax(RAbs(dir.x), RAbs(dir.y)), RAbs(dir.z))
    IN IF steps = Int2Rat(0)
       THEN Line(p0, Vector3(Int2Rat(0), Int2Rat(0), Int2Rat(0)), 1)
       ELSE Line(p0, VDiv(Vector3(RAbs(dir.x), RAbs(dir.y), RAbs(dir.z)), steps),
                 Abs(RoundF(steps)) + 1)

\* Line::new
LineNew(p0, p1) ==
    LET dir == VSub(p1, p0)
        steps == RMax(RMax(RAbs(dir.x), RAbs(dir.y)), RAbs(dir.z))
    IN IF steps = Int2Rat(0)
       THEN Line(p0, Vector3(Int2Rat(0), Int2Rat(0), Int2Rat(0)), 1)
       ELSE Line(p0, VDiv(dir, steps), Abs(RoundF(steps)) + 1)

\* Line::next taking two off the count of samples left
LineNextSkips(l) ==
    Line(VAdd(l.p0, l.step), l.step, IF l.steps >= 2 THEN l.steps - 2 ELSE 0)

\* Line::next on a stepper that has samples left: the stepper afterwards
LineNext(l) == Line(VAdd(l.p0, l.step), l.step, l.steps - 1)

\* the samples a stepper yields until its next() returns None
RECURSIVE LineCollect(_)
LineCollect(l) == IF l.steps = 0 THEN << >>
                  ELSE << l.p0 >> \o LineCollect(LineNext(l))

\* Iterator::zip of two collected sequences
Zip(a, b) ==
    [i \in 1 .. (IF Len(a) < Len(b) THEN Len(a) ELSE Len(b)) |-> << a[i], b[i] >>]

\* the concatenation of a sequence of sequences
RECURSIVE Flatten(_)
Flatten(ss) == IF ss = << >> THEN << >> ELSE Head(ss) \o Flatten(Tail(ss))

(***************************************************************************)
(* The drawing operations, each as the points it hands to set, in order.   *)
(***************************************************************************)
\* Canvas::line without the rounding of its endpoints
line_setsUnrounded(p0, p1) == LineCollect(LineNew(p0, p1))

\* Canvas::line
line_sets(p0, p1) == LineCollect(LineNew(VRound(p0), VRound(p1)))

\* triangle_line without p.z = z: each point keeps the depth of its sample
triangle_line_setsKeepsZ(p0, p1, z) == LineCollect(LineNew(VRound(p0), VRound(p1)))

\* Canvas::triangle_line
triangle_line_sets(p0, p1, z) ==
    LET ps == LineCollect(LineNew(VRound(p0), VRound(p1)))
    IN [i \in 1 .. Len(ps) |-> [ps[i] EXCEPT !.z = z]]

\* (p0.z + p1.z + p2.z) / 3.0
MidZ(p0, p1, p2) == FDiv(FAdd(FAdd(p0.z, p1.z), p2.z), Int2Rat(3))

\* triangle without its third edge, p1-p2
triangle_setsTwoEdges(p0, p1, p2) ==
    LET midz == MidZ(p0, p1, p2)
    IN triangle_line_sets(p0, p1, midz)
       \o triangle_line_sets(p0, p2, midz)

\* Canvas::triangle
triangle_sets(p0, p1, p2) ==
    LET midz == MidZ(p0, p1, p2)
    IN triangle_line_sets(p0, p1, midz)
       \o triangle_line_sets(p0, p2, midz)
       \o triangle_line_sets(p1, p2, midz)

\* FillOrder without its third compare-and-swap, of p1 and p2
FillOrderTwoSwaps(a0, a1, a2) ==
    LET s1 == IF RLt(a1.y, a0.y) THEN << a1, a0, a2 >> ELSE << a0, a1, a2 >>
        s2 == IF RLt(s1[3].y, s1[1].y) THEN << s1[3], s1[2], s1[1] >> ELSE s1
    IN s2

\* the three compare-and-swap steps of fill_triangle: << p0, p1, p2 >>
FillOrder(a0, a1, a2) ==
    LET s1 == IF RLt(a1.y, a0.y) THEN << a1, a0, a2 >> ELSE << a0, a1, a2 >>
        s2 == IF RLt(s1[3].y, s1[1].y) THEN << s1[3], s1[2], s1[1] >> ELSE s1
        s3 == IF RLt(s2[3].y, s2[2].y) THEN << s2[1], s2[3], s2[2] >> ELSE s2
    IN s3

\* one walk of fill_triangle: the steppers from a to b and from a to c, zipped
FillWalk(a, b, c, midz) ==
    LET pairs == Zip(LineCollect(LineNew(a, b)), LineCollect(LineNew(a, c)))
    IN Flatten([i \in 1 .. Len(pairs) |->
                    triangle_line_sets(pairs[i][1], pairs[i][2], midz)])

\* fill_triangle without the walk from p1
fill_triangle_setsTwoWalks(a0, a1, a2) ==
    LET o == FillOrder(a0, a1, a2)
        p0 == o[1]
        p1 == o[2]
        p2 == o[3]
        midz == MidZ(p0, p1, p2)
    IN FillWalk(p0, p1, p2, midz)
       \o FillWalk(p2, p0, p1, midz)
       \o triangle_sets(p0, p1, p2)

\* Canvas::fill_triangle
fill_triangle_sets(a0, a1, a2) ==
    LET o == FillOrder(a0, a1, a2)
        p0 == o[1]
        p1 == o[2]
        p2 == o[3]
        midz == MidZ(p0, p1, p2)
    IN FillWalk(p0, p1, p2, midz)
       \o FillWalk(p2, p0, p1, midz)
       \o FillWalk(p1, p0, p2, midz)
       \o triangle_sets(p0, p1, p2)

line(cv, p0, p1) == SetAll(cv, line_sets(p0, p1))
triangle(cv, p0, p1, p2) == SetAll(cv, triangle_sets(p0, p1, p2))
fill_triangle(cv, p0, p1, p2) == SetAll(cv, fill_triangle_sets(p0, p1, p2))

(***************************************************************************)
(* Queries and serialization.                                              *)
(***************************************************************************)
I32Max == 2147483647
I32Min == -I32Max - 1

SetMin(S) == CHOOSE m \in S : \A k \in S : m <= k
SetMax(S) == CHOOSE m \in S : \A k \in S : k <= m

\* btree_minmax taking its maximum from the front of the remaining keys
btree_minmaxFromFront(btree) ==
    IF DOMAIN btree = {} THEN None
    ELSE LET min == SetMin(DOMAIN btree)
             back == (DOMAIN btree) \ {min}
         IN Some(<< min, IF back = {} THEN min ELSE SetMin(back) >>)

\* btree_minmax: the first key, and the last of the other keys (or the first)
btree_minmax(btree) ==
    IF DOMAIN btree = {} THEN None
    ELSE LET min == SetMin(DOMAIN btree)
             back == (DOMAIN btree) \ {min}
         IN Some(<< min, IF back = {} THEN min ELSE SetMax(back) >>)

\* Option::unwrap_or
unwrap_or(opt, default) == IF opt = None THEN default ELSE opt[1]

\* Canvas::dimensions: Some(<< min_row, max_row, min_col, max_col >>) or None
dimensions(cv) ==
    IF btree_minmax(cv.rows) = None THEN None
    ELSE LET mm == btree_minmax(cv.rows)[1]
             cols == { unwrap_or(btree_minmax(cv.rows[r]), << 0, 0 >>) :
                           r \in DOMAIN cv.rows }
             min_c == SetMin({I32Max} \cup { c[1] : c \in cols })
             max_c == SetMax({I32Min} \cup { c[2] : c \in cols })
         IN Some(<< mm[1], mm[2], min_c, max_c >>)

\* the Rows iterator (the canvas it borrows is the canvas of the state)
Rows(with_colors, min_row, max_row, min_col, max_col) ==
    [with_colors |-> with_colors, min_row |-> min_row, max_row |-> max_row,
     min_col |-> min_col, max_col |-> max_col]

\* Canvas::frame
frame(with_colors, min_row, max_row, min_col, max_col) ==
    Rows(with_colors, min_row, max_row, min_col, max_col)

\* Canvas::rows
rows_of(cv, with_colors) ==
    LET d == unwrap_or(dimensions(cv), << I32Max, 0, 0, 0 >>)
    IN frame(with_colors, d[1], d[2], d[3], None)

\* ((pix.z - zmin) / (zmax - zmin) * 19.0).round()
GrayStep(z, zmin, zmax) ==
    RoundF(FMul(FDiv(FSub(z, zmin), FSub(zmax, zmin)), Int2Rat(19)))

\* Rows::braille panics: unwrap of an absent zrange, a cast to u8 that fails
\* (of NaN, which zmax - zmin != 0.0 lets through, or of a number outside
\* of u8), or 23 - v below zero
BraillePanics(cv, with_colors, pix) ==
    /\ with_colors
    /\ \/ cv.zrange = None
       \/ LET zmin == cv.zrange[1][1]
              zmax == cv.zrange[1][2]
          IN IF IsNaN(zmin) \/ IsNaN(zmax) THEN TRUE
             ELSE /\ FSub(zmax, zmin) # Int2Rat(0)
                  /\ \/ IsNaN(pix.z)
                     \/ GrayStep(pix.z, zmin, zmax) < 0
                     \/ GrayStep(pix.z, zmin, zmax) > 23

\* braille with the dot mask taken as the code point, the blank not added
brailleWithoutBlank(cv, with_colors, pix) ==
    LET c == pix.braille_offset
    IN IF ~with_colors THEN [ch |-> c, gray |-> None]
       ELSE LET zmin == cv.zrange[1][1]
                zmax == cv.zrange[1][2]
                gray == IF FSub(zmax, zmin) # Int2Rat(0)
                        THEN 23 - GrayStep(pix.z, zmin, zmax)
                        ELSE 23
            IN [ch |-> c, gray |-> Some(gray)]

\* Rows::braille: the glyph, a code point and an Option of a grayscale level
braille(cv, with_colors, pix) ==
    LET c == BRAILLE_PATTERN_BLANK + pix.braille_offset
    IN IF ~with_colors THEN [ch |-> c, gray |-> None]
       ELSE LET zmin == cv.zrange[1][1]
                zmax == cv.zrange[1][2]
                gray == IF FSub(zmax, zmin) # Int2Rat(0)
                        THEN 23 - GrayStep(pix.z, zmin, zmax)
                        ELSE 23
            IN [ch |-> c, gray |-> Some(gray)]

BlankGlyph == [ch |-> BRAILLE_PATTERN_BLANK, gray |-> None]

\* the max_c of Rows::next for a stored row
RowMaxCol(r, row) ==
    IF r.max_col # None THEN r.max_col
    ELSE IF btree_minmax(row) = None THEN None
    ELSE Some(btree_minmax(row)[1][2])

\* RowCols with the range min_col..max_c, its end excluded
RowColsEndExcluded(cv, r) ==
    IF r.min_row \notin DOMAIN cv.rows THEN {}
    ELSE IF RowMaxCol(r, cv.rows[r.min_row]) = None THEN {}
    ELSE r.min_col .. (RowMaxCol(r, cv.rows[r.min_row])[1] - 1)

\* the columns Rows::next serializes for the row at min_row
RowCols(cv, r) ==
    IF r.min_row \notin DOMAIN cv.rows THEN {}
    ELSE IF RowMaxCol(r, cv.rows[r.min_row]) = None THEN {}
    ELSE r.min_col .. RowMaxCol(r, cv.rows[r.min_row])[1]

\* the line Rows::next yields: a sequence of glyphs
RowString(cv, r) ==
    LET cols == RowCols(cv, r)
    IN [i \in 1 .. Cardinality(cols) |->
           LET x == r.min_col + i - 1
           IN IF x \in DOMAIN cv.rows[r.min_row]
              THEN braille(cv, r.with_colors, cv.rows[r.min_row][x])
              ELSE BlankGlyph]

\* Rows::next panics inside braille
RowPanics(cv, r) ==
    \E x \in RowCols(cv, r) :
        /\ x \in DOMAIN cv.rows[r.min_row]
        /\ BraillePanics(cv, r.with_colors, cv.rows[r.min_row][x])

\* .collect() of a Rows iterator that does not panic: the lines next() yields
\* until it returns None
RECURSIVE CollectRows(_, _)
CollectRows(cv, r) ==
    IF r.min_row > r.max_row THEN << >>
    ELSE << RowString(cv, r) >> \o CollectRows(cv, [r EXCEPT !.min_row = @ + 1])

\* some next() of the iterator panics
CollectPanics(cv, r) ==
    \E k \in r.min_row .. r.max_row : RowPanics(cv, [r EXCEPT !.min_row = k])

\* the closure padded of render_scene with the whole padding in front
paddedWhole(min, max, max_len) ==
    IF max_len <= max - min THEN min ELSE min - (max_len - (max - min))

\* the closure padded of render_scene (padding > 0 where it is halved)
padded(min, max, max_len) ==
    IF max_len <= max - min THEN min
    ELSE LET padding == max_len - (max - min)
         IN min - padding \div 2

\* the Rows of the windowed branch of render_scene, for dimensions d
windowed_frame(with_colors, d, max_width, max_height) ==
    frame(with_colors, padded(d[1], d[2], max_height), d[2],
          padded(d[3], d[4], max_width), Some(d[4]))

(***************************************************************************)
(* The inputs.                                                             *)
(***************************************************************************)
\* x: -1.5 (rounds to -2), -0.5 (rounds to -1), 3
SetXs == { Rat(-3, 2), Rat(-1, 2), Int2Rat(3) }
\* y: -1, 8.5 (rounds to 9)
SetYs == { Int2Rat(-1), Rat(17, 2) }
SetZs == { Int2Rat(0), Int2Rat(1) }
SetPoints == { Vector3(x, y, z) : x \in SetXs, y \in SetYs, z \in SetZs }

ShapeA == Vector3(Int2Rat(0), Int2Rat(0), Int2Rat(0))
ShapeB == Vector3(Rat(5, 2), Int2Rat(-1), Int2Rat(1))
ShapeC == Vector3(Int2Rat(-2), Rat(9, 2), Rat(1, 2))
\* the endpoints of the lines drawn
LineArgs == { << ShapeA, ShapeB >>, << ShapeC, ShapeA >> }
\* the vertices of the triangles drawn
TriangleArgs == { << ShapeA, ShapeB, ShapeC >>, << ShapeC, ShapeA, ShapeA >> }

\* the arguments frame is called with:
\* << with_colors, min_row, max_row, min_col, max_col >>
FrameArgs ==
    { << TRUE, -1, 2, -1, Some(1) >>, << FALSE, -1, 2, -2, None >>,
      << FALSE, 0, 0, 0, Some(-1) >>, << TRUE, 2, 1, 0, Some(0) >>,
      << FALSE, I32Max, I32Max, 0, None >> }

Init ==
    /\ rows = new.rows
    /\ zrange = new.zrange
    /\ it = None
    /\ out = << >>
    /\ collected = FALSE
    /\ panicked = FALSE
    /\ setlog = {}
    /\ zseen = {}
    /\ call = None
    /\ ncalls = 0
    /\ stepper = None
    /\ samples = << >>
    /\ exhausted = FALSE
    /\ ends = None
    /\ shape = None
    /\ input = None
    /\ parsed = None
    /\ checked = None
    /\ draws = None
    /\ reader = None
    /\ stl = None

\* a call on the canvas may start: no iterator borrows it
CanCall == it = None /\ ~panicked /\ ncalls < MaxCalls

\* a drawing call: the canvas becomes cv, having handed the points ps to set
Drawn(cv, ps) ==
    /\ CanCall
    /\ rows' = cv.rows
    /\ zrange' = cv.zrange
    /\ setlog' = setlog \cup Range(ps)
    /\ zseen' = zseen \cup { p.z : p \in Range(ps) }
    /\ ncalls' = ncalls + 1
    /\ UNCHANGED << it, out, collected, panicked, call >>
    /\ UNCHANGED pureVars
    /\ UNCHANGED fileVars

DoSet == \E p \in SetPoints : Drawn(set(self, p), << p >>)

DoLine ==
    \E a \in LineArgs : Drawn(line(self, a[1], a[2]), line_sets(a[1], a[2]))

DoTriangle ==
    \E a \in TriangleArgs :
        Drawn(triangle(self, a[1], a[2], a[3]), triangle_sets(a[1], a[2], a[3]))

DoFillTriangle ==
    \E a \in TriangleArgs :
        Drawn(fill_triangle(self, a[1], a[2], a[3]),
              fill_triangle_sets(a[1], a[2], a[3]))

DoClear ==
    /\ CanCall
    /\ rows' = clear(self).rows
    /\ zrange' = clear(self).zrange
    /\ setlog' = {}
    /\ ncalls' = ncalls + 1
    /\ UNCHANGED << it, out, collected, panicked, zseen, call >>
    /\ UNCHANGED pureVars
    /\ UNCHANGED fileVars

\* a serialization call: the iterator is created, nothing is yielded yet
Serialize(fn, r) ==
    /\ CanCall
    /\ it' = Some(r)
    /\ call' = Some([fn |-> fn, rows |-> r])
    /\ out' = << >>
    /\ collected' = FALSE
    /\ ncalls' = ncalls + 1
    /\ UNCHANGED << rows, zrange, panicked, setlog, zseen >>
    /\ UNCHANGED pureVars
    /\ UNCHANGED fileVars

DoRows == \E with_colors \in BOOLEAN : Serialize("rows", rows_of(self, with_colors))

DoFrame ==
    \E a \in FrameArgs :
        Serialize("frame", frame(a[1], a[2], a[3], a[4], a[5]))

\* Rows::next returns None
RowsNextNone ==
    /\ it # None /\ ~panicked /\ ~collected
    /\ it[1].min_row > it[1].max_row
    /\ collected' = TRUE
    /\ UNCHANGED << rows, zrange, it, out, panicked, setlog, zseen, call,
                    ncalls >>
    /\ UNCHANGED pureVars
    /\ UNCHANGED fileVars

\* Rows::next returns Some(row).  min_row += 1 at i32::MAX overflows: a build
\* with overflow checks panics, a build without wraps around.
RowsNextSome ==
    /\ it # None /\ ~panicked /\ ~collected
    /\ it[1].min_row <= it[1].max_row
    /\ Len(out) < MaxOut
    /\ IF RowPanics(self, it[1])
       THEN panicked' = TRUE /\ UNCHANGED << it, out >>
       ELSE IF it[1].min_row = I32Max
       THEN \/ panicked' = TRUE /\ UNCHANGED << it, out >>
            \/ /\ it' = Some([it[1] EXCEPT !.min_row = I32Min])
               /\ out' = Append(out, RowString(self, it[1]))
               /\ UNCHANGED panicked
       ELSE /\ it' = Some([it[1] EXCEPT !.min_row = @ + 1])
            /\ out' = Append(out, RowString(self, it[1]))
            /\ UNCHANGED panicked
    /\ UNCHANGED << rows, zrange, collected, setlog, zseen, call, ncalls >>
    /\ UNCHANGED pureVars
    /\ UNCHANGED fileVars

\* the iterator is dropped: the borrow of the canvas ends
RowsDrop ==
    /\ it # None /\ ~panicked
    /\ it' = None
    /\ out' = << >>
    /\ collected' = FALSE
    /\ call' = None
    /\ UNCHANGED << rows, zrange, panicked, setlog, zseen, ncalls >>
    /\ UNCHANGED pureVars
    /\ UNCHANGED fileVars

Next ==
    \/ DoSet
    \/ DoLine
    \/ DoTriangle
    \/ DoFillTriangle
    \/ DoClear
    \/ DoRows
    \/ DoFrame
    \/ RowsNextNone
    \/ RowsNextSome
    \/ RowsDrop

Spec == Init /\ [][Next]_vars

(***************************************************************************)
(* Serialization of a canvas of single points: the origin, points of four  *)
(* depths, and points whose depth is NaN.                                   *)
(***************************************************************************)
Origin == Vector3(Int2Rat(0), Int2Rat(0), Int2Rat(0))

GlyphPoints ==
    { Origin,
      Vector3(Int2Rat(1), Int2Rat(0), Int2Rat(2)),
      Vector3(Int2Rat(1), Int2Rat(1), Int2Rat(-1)),
      Vector3(Int2Rat(5), Int2Rat(-1), Int2Rat(1)),
      Vector3(Int2Rat(-3), Int2Rat(6), Int2Rat(2)),
      Vector3(Int2Rat(0), Int2Rat(0), NaN),
      Vector3(Int2Rat(5), Int2Rat(6), NaN) }

DoSetGlyph == \E p \in GlyphPoints : Drawn(set(self, p), << p >>)

GlyphNext ==
    \/ DoSetGlyph
    \/ DoClear
    \/ DoRows
    \/ DoFrame
    \/ RowsNextNone
    \/ RowsNextSome
    \/ RowsDrop

GlyphSpec == Init /\ [][GlyphNext]_vars

(***************************************************************************)
(* A Line stepper made by Line::new and driven by calls of its next().     *)
(***************************************************************************)
\* the endpoints: whole, half and quarter coordinates, in every direction
LinePoints ==
    { Origin,
      Vector3(Int2Rat(3), Int2Rat(0), Int2Rat(0)),
      Vector3(Int2Rat(3), Int2Rat(3), Int2Rat(3)),
      Vector3(Int2Rat(0), Int2Rat(-2), Int2Rat(0)),
      Vector3(Rat(5, 2), Int2Rat(1), Int2Rat(0)),
      Vector3(Rat(1, 4), Int2Rat(0), Int2Rat(0)),
      Vector3(Int2Rat(3), Int2Rat(1), Int2Rat(2)),
      Vector3(Rat(1, 2), Rat(1, 2), Int2Rat(0)),
      Vector3(Int2Rat(-1), Int2Rat(2), Int2Rat(0)),
      Vector3(Rat(1, 2), Int2Rat(-1), Int2Rat(0)) }

\* Line::new(p0, p1)
DoLineNew ==
    \E p0, p1 \in LinePoints :
        /\ stepper = None
        /\ ends = None
        /\ stepper' = Some(LineNew(p0, p1))
        /\ ends' = Some(<< p0, p1 >>)
        /\ UNCHANGED << samples, exhausted, shape >>
        /\ UNCHANGED canvasVars
        /\ UNCHANGED fileVars

\* Line::next returns Some(p)
StepperNextSome ==
    /\ stepper # None
    /\ stepper[1].steps # 0
    /\ samples' = Append(samples, stepper[1].p0)
    /\ stepper' = Some(LineNext(stepper[1]))
    /\ UNCHANGED << exhausted, ends, shape >>
    /\ UNCHANGED canvasVars
    /\ UNCHANGED fileVars

\* Line::next returns None
StepperNextNone ==
    /\ stepper # None
    /\ stepper[1].steps = 0
    /\ exhausted' = TRUE
    /\ UNCHANGED << stepper, samples, ends, shape >>
    /\ UNCHANGED canvasVars
    /\ UNCHANGED fileVars

LineStepNext ==
    \/ DoLineNew
    \/ StepperNextSome
    \/ StepperNextNone

LineSpec == Init /\ [][LineStepNext]_vars

(***************************************************************************)
(* One triangle drawn on a new canvas, as a wireframe or filled.           *)
(***************************************************************************)
\* the vertices
TriPoints ==
    { Origin,
      Vector3(Int2Rat(4), Int2Rat(2), Int2Rat(1)),
      Vector3(Int2Rat(2), Int2Rat(1), Rat(1, 2)),
      Vector3(Rat(3, 2), Int2Rat(5), Int2Rat(2)),
      Vector3(Int2Rat(-2), Rat(5, 2), Int2Rat(0)),
      Vector3(Int2Rat(0), Int2Rat(2), Int2Rat(0)),
      Vector3(Int2Rat(6), Int2Rat(1), Int2Rat(0)) }

\* two more vertices, whose depths f32 adds to different sums in different
\* orders: (8 + z) + z = 10 and (z + z) + 8 = 10 + 2^-20 for z = 1 + 3 * 2^-23
DeepPoints ==
    { Vector3(Int2Rat(0), Int2Rat(2), Int2Rat(8)),
      Vector3(Int2Rat(1), Int2Rat(0), Rat(8388611, 8388608)) }

\* the triples of vertices drawn
TriArgs ==
    (TriPoints \X TriPoints \X TriPoints)
        \cup (DeepPoints \X DeepPoints \X DeepPoints)

\* a drawing call on the canvas Canvas::new() made: the canvas becomes cv,
\* having handed the points ps to set
DrawnOnNew(fn, v, cv, ps) ==
    /\ shape = None
    /\ CanCall
    /\ rows' = cv.rows
    /\ zrange' = cv.zrange
    /\ setlog' = Range(ps)
    /\ zseen' = { q.z : q \in Range(ps) }
    /\ ncalls' = ncalls + 1
    /\ shape' = Some([fn |-> fn, v |-> v])
    /\ UNCHANGED << it, out, collected, panicked, call >>
    /\ UNCHANGED << stepper, samples, exhausted, ends >>
    /\ UNCHANGED fileVars

DoTriangleOnNew ==
    \E v \in TriArgs :
        DrawnOnNew("triangle", v, triangle(new, v[1], v[2], v[3]),
                   triangle_sets(v[1], v[2], v[3]))

DoFillTriangleOnNew ==
    \E v \in TriArgs :
        DrawnOnNew("fill_triangle", v, fill_triangle(new, v[1], v[2], v[3]),
                   fill_triangle_sets(v[1], v[2], v[3]))

\* Canvas::line on the new canvas
DoLineOnNew ==
    \E p0, p1 \in LinePoints :
        DrawnOnNew("line", << p0, p1 >>, line(new, p0, p1), line_sets(p0, p1))

TriNext ==
    \/ DoTriangleOnNew
    \/ DoFillTriangleOnNew
    \/ DoLineOnNew

TriSpec == Init /\ [][TriNext]_vars

(***************************************************************************)
(* Single dots set at coordinates on both sides of zero, whole and not.    *)
(***************************************************************************)
\* x: -3, -1.5 (rounds to -2), -1, 0, 1
QuantXs == { Int2Rat(-3), Rat(-3, 2), Int2Rat(-1), Int2Rat(0), Int2Rat(1) }
\* y: -5, -3, -1, -0.25 (rounds to 0), 2, 4.5 (rounds to 5)
QuantYs ==
    { Int2Rat(-5), Int2Rat(-3), Int2Rat(-1), Rat(-1, 4), Int2Rat(2), Rat(9, 2) }
QuantPoints == { Vector3(x, y, Int2Rat(0)) : x \in QuantXs, y \in QuantYs }

DoSetQuant == \E p \in QuantPoints : Drawn(set(self, p), << p >>)

QuantNext == DoSetQuant

QuantSpec == Init /\ [][QuantNext]_vars

(***************************************************************************)
(* render_scene with Some(max_dimensions), on a canvas of single points.   *)
(***************************************************************************)
\* cells (0, 0), (1, 0), (2, 1), (4, 2), (-2, -1)
WindowPoints ==
    { Origin,
      Vector3(Int2Rat(2), Int2Rat(0), Int2Rat(1)),
      Vector3(Int2Rat(5), Int2Rat(4), Int2Rat(0)),
      Vector3(Int2Rat(8), Int2Rat(9), Int2Rat(2)),
      Vector3(Int2Rat(-3), Int2Rat(-1), Int2Rat(1)) }

\* << max_width, max_height >>
WindowSizes == { << 1, 1 >>, << 3, 2 >>, << 5, 4 >>, << 6, 5 >>, << 9, 3 >> }

DoSetWindow == \E p \in WindowPoints : Drawn(set(self, p), << p >>)

\* render_scene, from canvas.dimensions() on: the frame is collected (or is
\* vec![] when nothing is stored) and the iterator is gone on return
DoRenderScene ==
    \E w \in WindowSizes, no_depth \in BOOLEAN :
        LET d == dimensions(self)
            r == windowed_frame(~no_depth, d[1], w[1], w[2])
        IN /\ CanCall
           /\ ncalls' = ncalls + 1
           /\ call' = Some([fn |-> "render_scene", window |-> w, dims |-> d,
                            rows |-> IF d = None THEN None ELSE Some(r)])
           /\ IF d = None
              THEN out' = << >> /\ collected' = TRUE /\ UNCHANGED panicked
              ELSE IF CollectPanics(self, r)
              THEN panicked' = TRUE /\ UNCHANGED << out, collected >>
              ELSE /\ out' = CollectRows(self, r)
                   /\ collected' = TRUE
                   /\ UNCHANGED panicked
           /\ UNCHANGED << rows, zrange, it, setlog, zseen >>
           /\ UNCHANGED pureVars
           /\ UNCHANGED fileVars

WindowNext ==
    \/ DoSetWindow
    \/ DoRenderScene

WindowSpec == Init /\ [][WindowNext]_vars

(***************************************************************************)
(* A scene description: parse_module, type_check and Module's render.      *)
(* A line of the input is the sequence of its words (split_whitespace),    *)
(* which also stands for its raw text.                                     *)
(***************************************************************************)
\* Result
Ok(v) == [ok |-> TRUE, v |-> v]
Err(e) == [ok |-> FALSE, e |-> e]

\* str::starts_with('#'), on the words of DslLines
StartsWithHash(w) == w \in {"#", "#top"}

\* parse_id's test, on the words of DslLines: the first char is alphabetic
\* and the others are alphanumeric
ValidId(w) == w \in {"vertex", "line", "triangle", "mesh", "a", "b", "c"}

\* f32::from_str, on the words of DslLines
f32_from_str(w) ==
    CASE w = "0" -> Ok(Int2Rat(0))
      [] w = "1" -> Ok(Int2Rat(1))
      [] w = "2" -> Ok(Int2Rat(2))
      [] w = "3" -> Ok(Int2Rat(3))
      [] w = "4" -> Ok(Int2Rat(4))
      [] OTHER -> Err(w)

\* LineParser; its methods take k, the number of words its iterator has
\* yielded so far
LineParser(raw_line, line_no) ==
    [raw_line |-> raw_line, line_no |-> line_no, line |-> raw_line]

\* LineParser::error: an ast::Error
error(lp, kind) ==
    Err([line |-> lp.raw_line, line_no |-> lp.line_no, kind |-> kind])

\* LineParser::next
next(lp, k, section) ==
    IF k >= Len(lp.line)
    THEN error(lp, << "UnexpectedEol", section >>)
    ELSE Ok(lp.line[k + 1])

\* LineParser::parse_id
parse_id(lp, k) ==
    LET id == next(lp, k, "identifier")
    IN  IF ~id.ok THEN id
        ELSE IF ValidId(id.v) THEN id
        ELSE error(lp, << "BadIdentifier", id.v >>)

\* LineParser::parse_f32
parse_f32(lp, k) ==
    LET num == next(lp, k, "number")
    IN  IF ~num.ok THEN num
        ELSE IF f32_from_str(num.v).ok THEN f32_from_str(num.v)
        ELSE error(lp, << "BadNumber", num.v >>)

\* LineParser::eat
eat(lp, k, what) ==
    LET p == next(lp, k, what)
    IN  IF ~p.ok THEN p
        ELSE IF p.v # what THEN error(lp, << "Unexpected", p.v, what >>)
        ELSE Ok(<< >>)

\* the first error of a sequence of results, or what all of them give: the ?
\* operator applied from left to right
RECURSIVE Try(_, _)
Try(rs, i) ==
    IF i > Len(rs) THEN Ok([j \in DOMAIN rs |-> rs[j].v])
    ELSE IF ~rs[i].ok THEN rs[i]
    ELSE Try(rs, i + 1)

\* LineParser::parse_vertex, after the word "vertex": an ast::Expr and the
\* number of words taken
parse_vertex(lp) ==
    LET r == Try(<< parse_id(lp, 1), eat(lp, 2, "="), parse_f32(lp, 3),
                    parse_f32(lp, 4), parse_f32(lp, 5) >>, 1)
    IN  IF ~r.ok THEN r
        ELSE Ok([expr |-> [ty |-> "Vertex", name |-> r.v[1],
                           pos |-> Vector3(r.v[3], r.v[4], r.v[5])],
                 k |-> 6])

\* LineParser::parse_line, after the word "line"
parse_line(lp) ==
    LET r == Try(<< parse_id(lp, 1), parse_id(lp, 2) >>, 1)
    IN  IF ~r.ok THEN r ELSE Ok([expr |-> [ty |-> "Line", v |-> r.v], k |-> 3])

\* LineParser::parse_triangle, after the word "triangle"
parse_triangle(lp) ==
    LET r == Try(<< parse_id(lp, 1), parse_id(lp, 2), parse_id(lp, 3) >>, 1)
    IN  IF ~r.ok THEN r
        ELSE Ok([expr |-> [ty |-> "Triangle", v |-> r.v], k |-> 4])

\* LineParser::parse: an Option of a Result
parse(lp) ==
    LET section == "vertex | line | triangle"
        ty == next(lp, 0, section)
    IN  IF ~ty.ok THEN None
        ELSE IF StartsWithHash(ty.v) THEN None
        ELSE LET res == CASE ty.v = "vertex" -> parse_vertex(lp)
                          [] ty.v = "line" -> parse_line(lp)
                          [] ty.v = "triangle" -> parse_triangle(lp)
                          [] OTHER ->
                              error(lp, << "Unexpected", ty.v, section >>)
             IN  IF ~res.ok THEN Some(res)
                 ELSE IF res.v.k < Len(lp.line)
                 THEN Some(error(lp, << "Unexpected", lp.line[res.v.k + 1],
                                        "<eol>" >>))
                 ELSE Some(Ok([expr |-> res.v.expr, line |-> lp.raw_line,
                               line_no |-> lp.line_no]))

\* Iterator::flat_map over Options: the items inside the Somes, in order
RECURSIVE flat_map(_, _)
flat_map(s, i) ==
    IF i > Len(s) THEN << >>
    ELSE s[i] \o flat_map(s, i + 1)

\* parse_module, with the line numbers counted over the statements only
parse_moduleCountsStatements(in) ==
    LET kept == SelectSeq(in, LAMBDA l : parse(LineParser(l, 0)) # None)
        results == [i \in DOMAIN kept |->
                       parse(LineParser(kept[i], i - 1))]
        stmts == Try(flat_map(results, 1), 1)
    IN  IF ~stmts.ok THEN stmts
        ELSE Ok([input |-> in, statements |-> stmts.v])

\* parse_module: lines, enumerate from 0, flat_map of parse, collect
parse_module(in) ==
    LET results == [i \in DOMAIN in |-> parse(LineParser(in[i], i - 1))]
        stmts == Try(flat_map(results, 1), 1)
    IN  IF ~stmts.ok THEN stmts
        ELSE Ok([input |-> in, statements |-> stmts.v])

\* has_vertex, the closure of type_check
has_vertex(env, v, stmt) ==
    IF v \notin env
    THEN Err([line |-> stmt.line, line_no |-> stmt.line_no,
              kind |-> << "UndeclaredVariable", v >>])
    ELSE Ok(<< >>)

\* the arm of type_check for a line or a triangle, its arguments checked
\* from the last to the first
check_argsBackwards(env, stmt) ==
    LET n == Len(stmt.expr.v)
    IN  Try([j \in 1 .. n |-> has_vertex(env, stmt.expr.v[n + 1 - j], stmt)],
            1)

\* the arm of type_check for a line or a triangle
check_args(env, stmt) ==
    Try([j \in DOMAIN stmt.expr.v |-> has_vertex(env, stmt.expr.v[j], stmt)],
        1)

\* the loop of type_check from the i-th statement on
RECURSIVE type_check_from(_, _, _)
type_check_from(stmts, i, env) ==
    IF i > Len(stmts) THEN Ok(<< >>)
    ELSE IF stmts[i].expr.ty = "Vertex"
    THEN type_check_from(stmts, i + 1, env \cup {stmts[i].expr.name})
    ELSE IF ~check_args(env, stmts[i]).ok THEN check_args(env, stmts[i])
    ELSE type_check_from(stmts, i + 1, env)

\* type_check
type_check(module) == type_check_from(module.statements, 1, {})

\* one turn of the loop of render, a vertex declared again keeping its
\* first position
render_stmtKeepsFirst(s, stmt, only_wireframe) ==
    IF s.panicked THEN s
    ELSE IF stmt.expr.ty = "Vertex"
    THEN IF stmt.expr.name \in DOMAIN s.env THEN s
         ELSE [s EXCEPT !.env = MapInsert(@, stmt.expr.name, stmt.expr.pos)]
    ELSE IF \E v \in Range(stmt.expr.v) : v \notin DOMAIN s.env
    THEN [s EXCEPT !.panicked = TRUE]
    ELSE LET fn == IF stmt.expr.ty = "Line" THEN "line"
                   ELSE IF only_wireframe THEN "triangle"
                   ELSE "fill_triangle"
         IN  [s EXCEPT !.calls =
                  Append(@, [fn |-> fn,
                             v |-> [j \in DOMAIN stmt.expr.v |->
                                       s.env[stmt.expr.v[j]]]])]

\* one turn of the loop of render: env[name] panics when name is missing
render_stmt(s, stmt, only_wireframe) ==
    IF s.panicked THEN s
    ELSE IF stmt.expr.ty = "Vertex"
    THEN [s EXCEPT !.env = MapInsert(@, stmt.expr.name, stmt.expr.pos)]
    ELSE IF \E v \in Range(stmt.expr.v) : v \notin DOMAIN s.env
    THEN [s EXCEPT !.panicked = TRUE]
    ELSE LET fn == IF stmt.expr.ty = "Line" THEN "line"
                   ELSE IF only_wireframe THEN "triangle"
                   ELSE "fill_triangle"
         IN  [s EXCEPT !.calls =
                  Append(@, [fn |-> fn,
                             v |-> [j \in DOMAIN stmt.expr.v |->
                                       s.env[stmt.expr.v[j]]]])]

\* render of a Module: the calls it makes on the canvas and whether it
\* panicked
RECURSIVE render_from(_, _, _, _)
render_from(stmts, i, s, only_wireframe) ==
    IF i > Len(stmts) THEN s
    ELSE render_from(stmts, i + 1, render_stmt(s, stmts[i], only_wireframe),
                     only_wireframe)

render(module, only_wireframe) ==
    render_from(module.statements, 1,
                [env |-> EmptyMap, calls |-> << >>, panicked |-> FALSE],
                only_wireframe)

\* the points a sequence of drawing calls hands to set, in order
RECURSIVE calls_sets(_, _)
calls_sets(cs, i) ==
    IF i > Len(cs) THEN << >>
    ELSE LET v == cs[i].v
         IN  (CASE cs[i].fn = "line" -> line_sets(v[1], v[2])
                [] cs[i].fn = "triangle" -> triangle_sets(v[1], v[2], v[3])
                [] cs[i].fn = "fill_triangle" ->
                       fill_triangle_sets(v[1], v[2], v[3]))
                 \o calls_sets(cs, i + 1)

\* the lines of the inputs
DslLines ==
    { << >>,
      << "#top", "a" >>,
      << "vertex", "a", "=", "1", "2", "3" >>,
      << "vertex", "b", "=", "0", "0", "0" >>,
      << "vertex", "a", "=", "4", "0", "1" >>,
      << "line", "a", "b" >>,
      << "line", "b", "c" >>,
      << "triangle", "a", "a", "a" >>,
      << "vertex", "b", "=", "1", "4x", "0" >>,
      << "line", "a" >>,
      << "line", "a", "b", "#" >>,
      << "mesh", "a" >>,
      << "line", "4x", "a" >> }

\* the inputs have at most MaxLines lines
MaxLines == 3

\* parse_module(input), from main
DoParseModule ==
    /\ input = None
    /\ \E in \in UNION { [1 .. n -> DslLines] : n \in 0 .. MaxLines } :
           /\ input' = Some(in)
           /\ parsed' = Some(parse_module(in))
    /\ UNCHANGED << checked, draws, reader, stl >>
    /\ UNCHANGED << canvasVars, pureVars >>

\* type_check(&module), from main
DoTypeCheck ==
    /\ parsed # None
    /\ parsed[1].ok
    /\ checked = None
    /\ checked' = Some(type_check(parsed[1].v))
    /\ UNCHANGED << input, parsed, draws, reader, stl >>
    /\ UNCHANGED << canvasVars, pureVars >>

\* module.render(&mut canvas, only_wireframe): main gets to it only when
\* type_check returned Ok
DoRender ==
    /\ checked # None
    /\ checked[1].ok
    /\ draws = None
    /\ CanCall
    /\ \E only_wireframe \in BOOLEAN :
           \E s \in { render(parsed[1].v, only_wireframe) } :
               \E ps \in { calls_sets(s.calls, 1) } :
                   \E cv \in { SetAll(self, ps) } :
                       /\ draws' = Some([only_wireframe |-> only_wireframe,
                                         calls |-> s.calls])
                       /\ rows' = cv.rows
                       /\ zrange' = cv.zrange
                       /\ setlog' = setlog \cup Range(ps)
                       /\ zseen' = zseen \cup { p.z : p \in Range(ps) }
                       /\ panicked' = s.panicked
    /\ ncalls' = ncalls + 1
    /\ UNCHANGED << it, out, collected, call >>
    /\ UNCHANGED << input, parsed, checked, reader, stl >>
    /\ UNCHANGED pureVars

DslNext ==
    \/ DoParseModule
    \/ DoTypeCheck
    \/ DoRender

DslSpec == Init /\ [][DslNext]_vars

(***************************************************************************)
(* A binary mesh: Stl::parse_binary on a reader.  A file is the triangle   *)
(* count and the attribute byte counts its bytes declare, and the number   *)
(* len of its bytes that are present; a reader is a file and the position  *)
(* pos of the next byte to read.  A number decoded from the file is named  *)
(* by the position of its first byte.                                      *)
(***************************************************************************)
\* Read::read_exact of n bytes, also under read_u32, read_f32 and read_u16:
\* the position the bytes were read from, or an error when fewer are left
read_exact(r, n) ==
    IF r.pos + n > r.len
    THEN [res |-> Err("UnexpectedEof"), r |-> [r EXCEPT !.pos = r.len]]
    ELSE [res |-> Ok(r.pos), r |-> [r EXCEPT !.pos = @ + n]]

\* io::copy(&mut r.by_ref().take(n), &mut io::sink()): the bytes that are
\* left are skipped, up to n of them
copy_take(r, n) ==
    [res |-> Ok(IF r.pos + n > r.len THEN r.len - r.pos ELSE n),
     r |-> [r EXCEPT !.pos = IF r.pos + n > r.len THEN r.len ELSE @ + n]]

\* the loop of parse_binary from its i-th turn on: four vectors of three
\* f32, the attribute byte count, the attribute bytes
RECURSIVE parse_facets(_, _, _)
parse_facets(r, i, facets) ==
    IF i > r.ntriangles THEN [res |-> Ok(facets), r |-> r]
    ELSE LET n == read_exact(r, 12)
             a == read_exact(n.r, 12)
             b == read_exact(a.r, 12)
             c == read_exact(b.r, 12)
             attribute_count == read_exact(c.r, 2)
             skipped == copy_take(attribute_count.r, r.attrs[i])
         IN  IF ~n.res.ok THEN n
             ELSE IF ~a.res.ok THEN a
             ELSE IF ~b.res.ok THEN b
             ELSE IF ~c.res.ok THEN c
             ELSE IF ~attribute_count.res.ok THEN attribute_count
             ELSE parse_facets(skipped.r, i + 1,
                               Append(facets,
                                      [vertices |-> << a.res.v, b.res.v,
                                                       c.res.v >>,
                                       normal |-> n.res.v]))

\* Stl::parse_binary: what it returns and the reader as it leaves it
parse_binary(r) ==
    LET header == read_exact(r, 80)
        ntriangles == read_exact(header.r, 4)
        facets == parse_facets(ntriangles.r, 1, << >>)
    IN  IF ~header.res.ok THEN header
        ELSE IF ~ntriangles.res.ok THEN ntriangles
        ELSE IF ~facets.res.ok THEN facets
        ELSE [res |-> Ok([header |-> header.res.v, facets |-> facets.res.v]),
              r |-> facets.r]

\* the files declare at most MaxFacets triangles
MaxFacets == 2

\* the length of a file with every byte it declares: the header, the
\* count, and for every facet 50 bytes and its attribute bytes
RECURSIVE FullLen(_, _)
FullLen(attrs, i) ==
    IF i > Len(attrs) THEN 84 ELSE 50 + attrs[i] + FullLen(attrs, i + 1)

\* readers at the start of the files: whole, and cut short at every byte
StlFiles ==
    { [ntriangles |-> Len(attrs), attrs |-> attrs, len |-> len, pos |-> 0] :
        << attrs, len >> \in
            { al \in (UNION { [1 .. n -> {0, 2}] : n \in 0 .. MaxFacets })
                         \X (0 .. 84 + 52 * MaxFacets) :
                al[2] <= FullLen(al[1], 1) } }

\* Stl::parse_binary(&mut f), from main
DoParseBinary ==
    /\ reader = None
    /\ \E f \in StlFiles :
           LET p == parse_binary(f)
           IN  /\ reader' = Some(p.r)
               /\ stl' = Some(p.res)
    /\ UNCHANGED << input, parsed, checked, draws >>
    /\ UNCHANGED << canvasVars, pureVars >>

StlNext == DoParseBinary

StlSpec == Init /\ [][StlNext]_vars

(***************************************************************************)
(* The claims.                                                             *)
(***************************************************************************)
\* the stored cells, << column, row >>
Cells == UNION { { << c, r >> : c \in DOMAIN rows[r] } : r \in DOMAIN rows }

\* the points handed to set since the last clear that quantize to cell
Contributors(cell) == { p \in setlog : pos(p.x, p.y) = cell }

\* C1: for every stored cell the pixel's z is the minimum p.z over the set(p)
\* calls since the last clear whose point quantizes to that cell, whatever
\* the order of the calls.
C1_PixelZIsMinimum ==
    \A cell \in Cells :
        LET z == rows[cell[2]][cell[1]].z
        IN /\ \E p \in Contributors(cell) : p.z = z
           /\ \A p \in Contributors(cell) : ~RLt(p.z, z)

\* a cell that points of different depth were set in
C1_Witness ==
    \E cell \in Cells :
        \E p, q \in Contributors(cell) : RLt(p.z, q.z)

\* the coordinates is_set is asked about
QueryXs == { Rat(n, 2) : n \in { -5, -3, -1, 0, 1, 4, 6, 7 } }
QueryYs == { Rat(n, 2) : n \in { -8, -4, -2, 0, 1, 5, 8, 17, 18, 22 } }

\* C2: is_set(x, y) is true iff since the last clear some set(p) had
\* round(p.x) = round(x) and round(p.y) = round(y).
C2_IsSetIffSet ==
    LET rounded == { << RoundF(p.x), RoundF(p.y) >> : p \in setlog }
    IN \A x \in QueryXs, y \in QueryYs :
           is_set(self, x, y) <=> << RoundF(x), RoundF(y) >> \in rounded

\* one dot of a cell is set and another dot of the same cell is not
C2_Witness ==
    \E x1, x2 \in QueryXs, y1, y2 \in QueryYs :
        /\ pos(x1, y1) = pos(x2, y2)
        /\ is_set(self, x1, y1)
        /\ ~is_set(self, x2, y2)
        /\ RoundF(x1) < 0

\* C3: every stored pixel has a non-zero dot mask and every stored row holds
\* at least one pixel.
C3_NoEmptyContainers ==
    \A r \in DOMAIN rows :
        /\ DOMAIN rows[r] # {}
        /\ \A c \in DOMAIN rows[r] : rows[r][c].braille_offset # 0

\* a canvas drawn on again after a clear
C3_Witness ==
    /\ Cardinality(DOMAIN rows) >= 2
    /\ \E z \in zseen : \A p \in setlog : p.z # z

\* C4: right after clear the row map is empty, dimensions() is None, rows()
\* yields no line and is_set is false for every coordinate.
C4_ClearReleasesAll ==
    [][DoClear =>
          /\ rows' = EmptyMap
          /\ dimensions(Canvas(rows', zrange')) = None
          /\ \A with_colors \in BOOLEAN :
                 rows_of(Canvas(rows', zrange'), with_colors).min_row
                     > rows_of(Canvas(rows', zrange'), with_colors).max_row
          /\ \A x \in QueryXs, y \in QueryYs :
                 ~is_set(Canvas(rows', zrange'), x, y)]_vars

\* a canvas that was drawn on and then cleared
C4_Witness == rows = EmptyMap /\ setlog = {} /\ zseen # {}

\* C5: zrange is None iff set was never called, and otherwise the least and
\* the greatest z of all points ever handed to set, clear or no clear.
C5_ZrangeIsRunning ==
    IF zseen = {} THEN zrange = None
    ELSE /\ zrange # None
         /\ zrange[1][1] \in zseen
         /\ zrange[1][2] \in zseen
         /\ \A z \in zseen : ~RLt(z, zrange[1][1]) /\ ~RLt(zrange[1][2], z)

\* after a clear, the zrange is wider than the depths on the canvas
C5_Witness ==
    /\ rows # EmptyMap
    /\ zrange # None
    /\ \A p \in setlog : RLt(zrange[1][1], p.z)

\* C7: dimensions() is None iff no pixel is stored; otherwise its bounds are
\* the least and greatest row key and the least and greatest column key of
\* the stored pixels, so after one set all four are that cell's.
C7_DimensionsAreExact ==
    IF Cells = {} THEN dimensions(self) = None
    ELSE /\ dimensions(self) # None
         /\ LET d == dimensions(self)[1]
            IN /\ \E cell \in Cells : cell[2] = d[1]
               /\ \E cell \in Cells : cell[2] = d[2]
               /\ \E cell \in Cells : cell[1] = d[3]
               /\ \E cell \in Cells : cell[1] = d[4]
               /\ \A cell \in Cells : /\ d[1] <= cell[2] /\ cell[2] <= d[2]
                                      /\ d[3] <= cell[1] /\ cell[1] <= d[4]
               /\ \A p \in setlog :
                      setlog = {p} =>
                          d = << pos(p.x, p.y)[2], pos(p.x, p.y)[2],
                                 pos(p.x, p.y)[1], pos(p.x, p.y)[1] >>

\* three rows and three columns stored, not all bounds in one row
C7_Witness ==
    /\ dimensions(self) # None
    /\ dimensions(self)[1][2] - dimensions(self)[1][1] >= 2
    /\ dimensions(self)[1][4] - dimensions(self)[1][3] >= 2
    /\ \A r \in DOMAIN rows : Cardinality(DOMAIN rows[r]) < 3
    /\ Cardinality(DOMAIN rows) >= 3
\* the live iterator was returned by fn and its next() has returned None
Collected(fn) ==
    /\ call # None
    /\ call[1].fn = fn
    /\ collected
    /\ ~panicked

\* C8: on an empty canvas rows() yields an empty list and frame() with any
\* bounds completes without a panic.
C8_EmptyCanvasNeverFails ==
    rows = EmptyMap =>
        /\ ~panicked
        /\ (call # None /\ call[1].fn = "rows") => out = << >>

\* the glyphs of line, which stands for the columns from first on, are those
\* of the pixels stored in row (U+2800 where none is stored)
GlyphsOf(ln, row, first) ==
    \A j \in 1 .. Len(ln) :
        ln[j].ch = IF (first + j - 1) \in DOMAIN row
                   THEN BRAILLE_PATTERN_BLANK + row[first + j - 1].braille_offset
                   ELSE BRAILLE_PATTERN_BLANK

\* C9 as claimed: rows() yields one line per row index of
\* [min_row, max_row], in ascending order, and the line of a stored row
\* covers the columns from that row's own minimum to its own maximum.
C9_RowsTrimmedOnBothSides ==
    Collected("rows") =>
        IF dimensions(self) = None THEN out = << >>
        ELSE LET d == dimensions(self)[1]
             IN /\ Len(out) = d[2] - d[1] + 1
                /\ \A i \in 1 .. Len(out) :
                       LET r == d[1] + i - 1
                       IN r \in DOMAIN rows =>
                           /\ Len(out[i]) = SetMax(DOMAIN rows[r])
                                            - SetMin(DOMAIN rows[r]) + 1
                           /\ GlyphsOf(out[i], rows[r], SetMin(DOMAIN rows[r]))

\* C9 amended: the line of a stored row covers the columns from the
\* canvas-wide minimum column of dimensions() to that row's own maximum,
\* and a row index that stores no pixel yields an empty line.
C9_RowsTrimmedOnTheRight ==
    Collected("rows") =>
        IF dimensions(self) = None THEN out = << >>
        ELSE LET d == dimensions(self)[1]
             IN /\ Len(out) = d[2] - d[1] + 1
                /\ \A i \in 1 .. Len(out) :
                       LET r == d[1] + i - 1
                       IN IF r \in DOMAIN rows
                          THEN /\ Len(out[i]) = SetMax(DOMAIN rows[r]) - d[3] + 1
                               /\ GlyphsOf(out[i], rows[r], d[3])
                          ELSE out[i] = << >>

\* rows() has yielded an empty line for a row without pixels and a line with
\* leading blanks for a row that starts right of the canvas's first column
C9_Witness ==
    /\ Collected("rows")
    /\ \E i \in 1 .. Len(out) : out[i] = << >>
    /\ \E i \in 1 .. Len(out) :
           /\ Len(out[i]) >= 3
           /\ out[i][1] = BlankGlyph
           /\ out[i][Len(out[i])] # BlankGlyph

\* C10: with max_col = Some(c) every line frame yields has c - min_col + 1
\* glyphs, the lines of rows without pixels included.
C10_FrameLinesSameLength ==
    (Collected("frame") /\ call[1].rows.max_col # None) =>
        \A i \in 1 .. Len(out) :
            Len(out[i]) = call[1].rows.max_col[1] - call[1].rows.min_col + 1

\* the row index of the i-th line of an iterator that started at row first
\* (the counter wraps around after I32Max)
RowAt(first, i) ==
    IF first <= I32Max - (i - 1) THEN first + (i - 1)
    ELSE (first - I32Max - 1) + (i - 1) + I32Min

\* C11: without colours every glyph of every line is U+2800 for a column
\* that stores no pixel and U+2800 plus the pixel's dot mask for one that
\* does, with no colour; after a single set at the origin rows(false)
\* yields exactly one line, holding the one glyph U+2801.
C11_UncolouredGlyphs ==
    (call # None /\ ~call[1].rows.with_colors) =>
        /\ \A i \in 1 .. Len(out) :
               LET r == RowAt(call[1].rows.min_row, i)
               IN \A j \in 1 .. Len(out[i]) :
                      LET x == call[1].rows.min_col + j - 1
                      IN out[i][j] =
                             [ch |-> IF x \in DOMAIN rows[r]
                                     THEN BRAILLE_PATTERN_BLANK
                                          + rows[r][x].braille_offset
                                     ELSE BRAILLE_PATTERN_BLANK,
                              gray |-> None]
        /\ (/\ Collected("rows")
            /\ \E p \in setlog :
                   setlog = {p} /\ p.x = Int2Rat(0) /\ p.y = Int2Rat(0))
               => out = << << [ch |-> 10241, gray |-> None] >> >>

\* an iterator without colours has yielded a line with a blank glyph and
\* with the glyph of a pixel that holds more than one dot
C11_Witness ==
    /\ call # None
    /\ collected
    /\ ~call[1].rows.with_colors
    /\ \E i \in 1 .. Len(out) :
           /\ \E j \in 1 .. Len(out[i]) : out[i][j].ch = BRAILLE_PATTERN_BLANK
           /\ \E j \in 1 .. Len(out[i]) :
                  out[i][j].ch - BRAILLE_PATTERN_BLANK \notin {0, 1, 2, 4, 8, 16, 32, 64, 128}

\* the grayscale level claimed for a pixel of depth z under the range zr
ClaimedLevel(z, zr) ==
    IF zr[1] = zr[2] THEN 23
    ELSE 23 - RoundF(RDiv(RMul(Int2Rat(19), RSub(z, zr[1])), RSub(zr[2], zr[1])))

\* C12: with colours no serialization fails, and the glyph of every stored
\* pixel carries the level 23 - round(19 * (z - zmin) / (zmax - zmin)), or
\* 23 when zmax = zmin; the level lies in 4 .. 23.
C12_GrayLevelInPalette ==
    (call # None /\ call[1].rows.with_colors) =>
        /\ ~panicked
        /\ \A i \in 1 .. Len(out) :
               LET r == RowAt(call[1].rows.min_row, i)
               IN \A j \in 1 .. Len(out[i]) :
                      LET x == call[1].rows.min_col + j - 1
                      IN x \in DOMAIN rows[r] =>
                             /\ out[i][j].gray # None
                             /\ out[i][j].gray[1]
                                    = ClaimedLevel(rows[r][x].z, zrange[1])
                             /\ out[i][j].gray[1] \in 4 .. 23

\* max(|dx|, |dy|, |dz|) between the endpoints e = << p0, p1 >>
MaxAbsDelta(e) ==
    LET ds == { RAbs(RSub(e[2].x, e[1].x)), RAbs(RSub(e[2].y, e[1].y)),
                RAbs(RSub(e[2].z, e[1].z)) }
    IN CHOOSE m \in ds : \A d \in ds : ~RLt(m, d)

\* C13: a stepper that has run out has yielded round(max(|dx|, |dy|, |dz|))
\* + 1 samples; for p0 = p1 it has yielded the one sample p0.
C13_LineLength ==
    exhausted =>
        /\ Len(samples) = RoundF(MaxAbsDelta(ends[1])) + 1
        /\ ends[1][1] = ends[1][2] => samples = << ends[1][1] >>

\* a stepper between endpoints a non-whole distance apart has run out,
\* having yielded at least three samples
C13_Witness ==
    /\ exhausted
    /\ MaxAbsDelta(ends[1])[2] # 1
    /\ Len(samples) >= 3

\* C14: the first sample of a stepper that has run out is p0 and its last
\* sample is p1.
C14_LineIncludesEndpoints ==
    exhausted =>
        /\ samples[1] = ends[1][1]
        /\ samples[Len(samples)] = ends[1][2]

\* the sequence s reversed
Reverse(s) == [i \in 1 .. Len(s) |-> s[Len(s) + 1 - i]]

IsWhole(a) == a[2] = 1

\* the segment e has whole deltas and is parallel to an axis or a diagonal:
\* the deltas that are not zero have the same size
AxisOrDiagonal(e) ==
    LET ds == { RAbs(RSub(e[2].x, e[1].x)), RAbs(RSub(e[2].y, e[1].y)),
                RAbs(RSub(e[2].z, e[1].z)) }
    IN /\ \A d \in ds : IsWhole(d)
       /\ Cardinality(ds \ { Int2Rat(0) }) = 1

\* C15: for a segment with whole deltas along an axis or a diagonal, the
\* samples of Line(p0, p1) are those of Line(p1, p0) in reverse order.
C15_LineReverses ==
    (exhausted /\ AxisOrDiagonal(ends[1])) =>
        samples = Reverse(LineCollect(LineNew(ends[1][2], ends[1][1])))

\* a diagonal stepper that ran towards smaller coordinates from a start
\* that is not whole
C15_Witness ==
    /\ exhausted
    /\ AxisOrDiagonal(ends[1])
    /\ Len(samples) >= 3
    /\ RLt(ends[1][2].x, ends[1][1].x)
    /\ RLt(ends[1][2].y, ends[1][1].y)
    /\ ~IsWhole(ends[1][1].x)

\* the dots of a canvas: << column, row, bit >> for every bit of every
\* stored pixel's mask
DotsOf(cv) ==
    UNION { UNION { { << c, r, b >> :
                        b \in { k \in { 1, 2, 4, 8, 16, 32, 64, 128 } :
                                  BitAnd(cv.rows[r][c].braille_offset, k) # 0 } } :
                    c \in DOMAIN cv.rows[r] } :
            r \in DOMAIN cv.rows }

\* the call made on the new canvas was fn
Drew(fn) == shape # None /\ shape[1].fn = fn

\* C16: triangle(p0, p1, p2) on a new canvas sets the dots of the lines
\* p0-p1, p0-p2 and p1-p2 between the rounded vertices and no other dot;
\* every point it hands to set and every pixel it leaves has the depth
\* (p0.z + p1.z + p2.z) / 3.
C16_TriangleIsThreeFlatEdges ==
    Drew("triangle") =>
        LET p0 == shape[1].v[1]
            p1 == shape[1].v[2]
            p2 == shape[1].v[3]
            mean == FDiv(FAdd(FAdd(p0.z, p1.z), p2.z), Int2Rat(3))
        IN /\ DotsOf(self) = DotsOf(line(new, p0, p1))
                                 \cup DotsOf(line(new, p0, p2))
                                 \cup DotsOf(line(new, p1, p2))
           /\ \A q \in setlog : q.z = mean
           /\ \A r \in DOMAIN rows : \A c \in DOMAIN rows[r] : rows[r][c].z = mean

\* a wireframe of three different vertices of three different depths, one
\* of them off the whole coordinates
C16_Witness ==
    /\ Drew("triangle")
    /\ Cardinality({ shape[1].v[i].z : i \in 1 .. 3 }) = 3
    /\ \E i \in 1 .. 3 : ~IsWhole(shape[1].v[i].x)
    /\ \E i \in 1 .. 3 : ~IsWhole(shape[1].v[i].y)

\* the vertices as the swaps of fill_triangle leave them
Ordered == FillOrder(shape[1].v[1], shape[1].v[2], shape[1].v[3])

WalkDots(a, b, c) ==
    LET s1 == LineCollect(LineNew(a, b))
        s2 == LineCollect(LineNew(a, c))
        n == IF Len(s1) < Len(s2) THEN Len(s1) ELSE Len(s2)
    IN UNION { DotsOf(line(new, s1[i], s2[i])) : i \in 1 .. n }

\* the dots of the wireframe of the ordered vertices
WireDots == DotsOf(triangle(new, Ordered[1], Ordered[2], Ordered[3]))

\* C18 as claimed: the dots of fill_triangle are those of the walk from the
\* one end of the y order, those of the walk from the other end, and those
\* of the wireframe; no other walk contributes.
C18_TwoWalksAndWireframe ==
    Drew("fill_triangle") =>
        DotsOf(self) = WalkDots(Ordered[1], Ordered[2], Ordered[3])
                           \cup WalkDots(Ordered[3], Ordered[1], Ordered[2])
                           \cup WireDots

\* C18 amended: a third walk, from the middle vertex p1 along p1->p0 and
\* p1->p2, contributes as well.
C18_ThreeWalksAndWireframe ==
    Drew("fill_triangle") =>
        DotsOf(self) = WalkDots(Ordered[1], Ordered[2], Ordered[3])
                           \cup WalkDots(Ordered[3], Ordered[1], Ordered[2])
                           \cup WalkDots(Ordered[2], Ordered[1], Ordered[3])
                           \cup WireDots

\* a filled triangle with dots that only the walk from the middle vertex sets
C18_Witness ==
    /\ Drew("fill_triangle")
    /\ \E d \in WalkDots(Ordered[2], Ordered[1], Ordered[3]) :
           d \notin WalkDots(Ordered[1], Ordered[2], Ordered[3])
                        \cup WalkDots(Ordered[3], Ordered[1], Ordered[2])
                        \cup WireDots

\* C19: every dot triangle(p0, p1, p2) sets on a new canvas is set by
\* fill_triangle(p0, p1, p2) on a new canvas, whatever the order of the
\* vertices.
C19_FillCoversWireframe ==
    Drew("fill_triangle") =>
        DotsOf(triangle(new, shape[1].v[1], shape[1].v[2], shape[1].v[3]))
            \subseteq DotsOf(self)

\* the vertices v lie on one line, or two or three of them coincide
Degenerate(v) ==
    LET a == [ x |-> RSub(v[2].x, v[1].x), y |-> RSub(v[2].y, v[1].y),
               z |-> RSub(v[2].z, v[1].z) ]
        b == [ x |-> RSub(v[3].x, v[1].x), y |-> RSub(v[3].y, v[1].y),
               z |-> RSub(v[3].z, v[1].z) ]
    IN /\ RSub(RMul(a.y, b.z), RMul(a.z, b.y)) = Int2Rat(0)
       /\ RSub(RMul(a.z, b.x), RMul(a.x, b.z)) = Int2Rat(0)
       /\ RSub(RMul(a.x, b.y), RMul(a.y, b.x)) = Int2Rat(0)

\* C20: fill_triangle on a degenerate triangle does not panic and sets the
\* dots that triangle sets on the same vertices, no more and no less.
C20_DegenerateFillIsWireframe ==
    (Drew("fill_triangle") /\ Degenerate(shape[1].v)) =>
        /\ ~panicked
        /\ DotsOf(self) = DotsOf(triangle(new, shape[1].v[1], shape[1].v[2],
                                          shape[1].v[3]))

\* C25: a call of next on a stepper with samples left yields the current
\* accumulator, adds the fixed step to it and takes one off the count of
\* samples left; on a stepper with none left it yields nothing and leaves
\* the stepper as it is.
C25_StepperFiniteNotRestartable ==
    [][stepper # None =>
         /\ stepper[1].steps = 0 => (stepper' = stepper /\ samples' = samples)
         /\ stepper[1].steps # 0 =>
               /\ samples' = Append(samples, stepper[1].p0)
               /\ stepper'[1].p0 = VAdd(stepper[1].p0, stepper[1].step)
               /\ stepper'[1].step = stepper[1].step
               /\ stepper'[1].steps = stepper[1].steps - 1]_vars

\* a stepper with a step that is not zero has yielded four samples and
\* then nothing
C25_Witness ==
    /\ exhausted
    /\ stepper[1].steps = 0
    /\ stepper[1].step # Origin
    /\ Len(samples) = 4

\* (a.z + b.z + c.z) / 3.0
MeanZ(a, b, c) == FDiv(FAdd(FAdd(a.z, b.z), c.z), Int2Rat(3))

\* fill_triangle has handed every point to set with the depth z, and left
\* every pixel and the depth range at z
FlatAt(z) ==
    /\ \A q \in setlog : q.z = z
    /\ \A r \in DOMAIN rows : \A c \in DOMAIN rows[r] : rows[r][c].z = z
    /\ zrange = Some(<< z, z >>)

\* C26 as claimed: the one depth of a filled triangle is the mean of the
\* depths of the vertices whatever their order, so also in the order given.
C26_FlatZInAnyOrder ==
    Drew("fill_triangle") =>
        FlatAt(MeanZ(shape[1].v[1], shape[1].v[2], shape[1].v[3]))

\* C26 amended: the one depth of a filled triangle is the f32 mean of the
\* depths of the vertices added in the order the swaps leave them in.
C26_FlatZInFillOrder ==
    Drew("fill_triangle") => FlatAt(MeanZ(Ordered[1], Ordered[2], Ordered[3]))

\* a filled triangle of three depths whose vertices the swaps have
\* reordered, with pixels in more than one cell
C26_Witness ==
    /\ Drew("fill_triangle")
    /\ Cardinality({ shape[1].v[i].z : i \in 1 .. 3 }) = 3
    /\ Ordered # shape[1].v
    /\ Cardinality(DotsOf(self)) > 8

\* the entries of BRAILLE_OFFSET_MAP
TableEntries == { BRAILLE_OFFSET_MAP[j][i] : j \in 1 .. 4, i \in 1 .. 2 }

\* the rounded coordinates of the points handed to set
RoundedSet == { << RoundF(q.x), RoundF(q.y) >> : q \in setlog }

\* C27: for every point handed to set, negative coordinates included,
\* round(x) = 2 * col + xoff and round(y) = 4 * row + yoff, where
\* (col, row) = pos(x, y) and (xoff, yoff), with xoff in 0..1 and yoff in
\* 0..3, is the place in the table of the bit braille_offset_at(x, y) gives;
\* the eight entries of the table are the eight bits of a byte; points with
\* different rounded coordinates set different dots.
C27_QuantizationDecomposes ==
    /\ TableEntries = { 1, 2, 4, 8, 16, 32, 64, 128 }
    /\ \A q \in setlog :
           \E xoff \in 0 .. 1, yoff \in 0 .. 3 :
               /\ BRAILLE_OFFSET_MAP[yoff + 1][xoff + 1] = braille_offset_at(q.x, q.y)
               /\ RoundF(q.x) = 2 * pos(q.x, q.y)[1] + xoff
               /\ RoundF(q.y) = 4 * pos(q.x, q.y)[2] + yoff
    /\ Cardinality(DotsOf(self)) = Cardinality(RoundedSet)

\* three dots set at negative odd coordinates, two of them in one cell
C27_Witness ==
    /\ Cardinality(RoundedSet) = 3
    /\ \A rc \in RoundedSet : rc[1] < 0 /\ rc[2] < 0 /\ rc[2] % 2 = 1
    /\ \E rc \in RoundedSet : rc[1] % 2 = 1
    /\ Cardinality({ << d[1], d[2] >> : d \in DotsOf(self) }) = 2

\* a <= b on f32: false when either is NaN
RLe(a, b) == ~IsNaN(a) /\ ~IsNaN(b) /\ ~RLt(b, a)

\* the depths of the stored pixels
StoredZs == { rows[r][c].z : << c, r >> \in Cells }

\* C28: when a pixel is stored, zrange is Some((zmin, zmax)) and every
\* stored pixel has zmin <= z <= zmax, so that the depth a coloured
\* serialization normalizes, (z - zmin) / (zmax - zmin), is in [0, 1].
C28_StoredZWithinZrange ==
    Cells # {} =>
        /\ zrange # None
        /\ \A z \in StoredZs :
               /\ RLe(zrange[1][1], z)
               /\ RLe(z, zrange[1][2])
               /\ (zrange[1][1] # zrange[1][2]) =>
                     LET t == FDiv(FSub(z, zrange[1][1]),
                                   FSub(zrange[1][2], zrange[1][1]))
                     IN RLe(Int2Rat(0), t) /\ RLe(t, Int2Rat(1))

\* the samples of the stepper Canvas::line makes for the endpoints given
LineSamples == LineCollect(LineNew(VRound(shape[1].v[1]), VRound(shape[1].v[2])))

\* C29: line(p0, p1) on a new canvas hands the samples of its stepper to
\* set and nothing else, so the dots on the canvas are theirs; the dots of
\* consecutive samples are at most 1 apart in x and in y, and the dots at
\* round(p0) and round(p1) are set.
C29_LineHasNoGaps ==
    Drew("line") =>
        /\ setlog = Range(LineSamples)
        /\ Cardinality(DotsOf(self))
               = Cardinality({ << RoundF(q.x), RoundF(q.y) >> : q \in Range(LineSamples) })
        /\ \A i \in 1 .. Len(LineSamples) - 1 :
               /\ Abs(RoundF(LineSamples[i + 1].x) - RoundF(LineSamples[i].x)) <= 1
               /\ Abs(RoundF(LineSamples[i + 1].y) - RoundF(LineSamples[i].y)) <= 1
        /\ is_set(self, shape[1].v[1].x, shape[1].v[1].y)
        /\ is_set(self, shape[1].v[2].x, shape[1].v[2].y)

\* a line between endpoints off the whole coordinates, neither along an
\* axis nor along a diagonal, of four dots or more
C29_Witness ==
    /\ Drew("line")
    /\ ~IsWhole(shape[1].v[1].x)
    /\ ~AxisOrDiagonal(<< VRound(shape[1].v[1]), VRound(shape[1].v[2]) >>)
    /\ Cardinality(DotsOf(self)) >= 4

\* render_scene has returned a frame of a canvas with pixels
Rendered ==
    /\ call # None
    /\ call[1].fn = "render_scene"
    /\ call[1].dims # None
    /\ ~panicked

\* of the last render_scene: the cells taken up along the rows and along
\* the columns (max - min + 1), and the rows and columns the frame starts
\* before the first one taken up
OccupiedRows == call[1].dims[1][2] - call[1].dims[1][1] + 1
OccupiedCols == call[1].dims[1][4] - call[1].dims[1][3] + 1
LeadRows == call[1].dims[1][1] - call[1].rows[1].min_row
LeadCols == call[1].dims[1][3] - call[1].rows[1].min_col

\* the frame returned starts lead_r lines and lead_c glyphs early: it has
\* lead_r lines (empty, no row is stored there) before the rows taken up,
\* and every line of a stored row has lead_c blank glyphs before the
\* columns taken up
FrameLeads(lead_r, lead_c) ==
    /\ LeadRows = lead_r
    /\ LeadCols = lead_c
    /\ Len(out) = lead_r + OccupiedRows
    /\ \A i \in 1 .. lead_r : out[i] = << >>
    /\ \A i \in 1 .. Len(out) :
           out[i] # << >> =>
               /\ Len(out[i]) = lead_c + OccupiedCols
               /\ \A k \in 1 .. lead_c : out[i][k] = BlankGlyph

\* the offset as claimed: floor((window - occupied) / 2), 0 when the window
\* is not larger
ClaimedOffset(window, occupied) ==
    IF window <= occupied THEN 0 ELSE (window - occupied) \div 2

\* the offset found: floor((window - occupied + 1) / 2), 0 when the window
\* is not larger
CentredOffset(window, occupied) ==
    IF window <= occupied THEN 0 ELSE (window - occupied + 1) \div 2

\* C21 as claimed: the frame starts floor((window - occupied) / 2) before
\* the content along each axis.
C21_OffsetIsFloorOfHalfMargin ==
    Rendered =>
        FrameLeads(ClaimedOffset(call[1].window[2], OccupiedRows),
                   ClaimedOffset(call[1].window[1], OccupiedCols))

\* C21 amended: the frame starts floor((window - occupied + 1) / 2) before
\* the content along each axis, which is the margin left behind the content
\* or one more; there is no offset when the window is not larger.
C21_OffsetIsCeilOfHalfMargin ==
    Rendered =>
        LET lr == CentredOffset(call[1].window[2], OccupiedRows)
            lc == CentredOffset(call[1].window[1], OccupiedCols)
            tr == call[1].window[2] - OccupiedRows - lr
            tc == call[1].window[1] - OccupiedCols - lc
        IN /\ FrameLeads(lr, lc)
           /\ call[1].window[2] > OccupiedRows => lr - tr \in { 0, 1 }
           /\ call[1].window[1] > OccupiedCols => lc - tc \in { 0, 1 }

\* a frame of a window that is wider than the content by an odd number, at
\* least 3, and higher by an even number, of a canvas with two rows stored
C21_Witness ==
    /\ Rendered
    /\ Cardinality(DOMAIN rows) = 2
    /\ call[1].window[1] - OccupiedCols >= 3
    /\ (call[1].window[1] - OccupiedCols) % 2 = 1
    /\ call[1].window[2] - OccupiedRows = 2
    /\ Len(out) = call[1].window[2] - 1

\* a line that gives no statement: blank, or a comment
Skipped(l) == l = << >> \/ StartsWithHash(l[1])

\* a line that parse gives an error for
Offending(l) == ~Skipped(l) /\ ~parse(LineParser(l, 0))[1].ok

\* the indices of the items of s that satisfy Test, in order
Indices(s, Test(_)) == SelectSeq([i \in DOMAIN s |-> i], LAMBDA i : Test(s[i]))

\* C23: when parse_module fails, its error is the error of the first
\* offending line of the input, with the text of that line and its index from
\* 0 among all the lines of the input, blank lines and comments counted; when
\* it succeeds, the statements are the lines that are neither blank nor
\* comments, in order, each with its text and its index from 0 among all the
\* lines
C23_FirstOffendingLineOrAllStatements ==
    parsed # None =>
        LET in == input[1]
            r == parsed[1]
            bad == { i \in DOMAIN in : Offending(in[i]) }
            kept == Indices(in, LAMBDA l : ~Skipped(l))
        IN  IF bad # {}
            THEN LET f == CHOOSE i \in bad : \A j \in bad : i <= j
                 IN  /\ ~r.ok
                     /\ r.e.line = in[f]
                     /\ r.e.line_no = f - 1
                     /\ r.e.kind = parse(LineParser(in[f], 0))[1].e.kind
            ELSE /\ r.ok
                 /\ r.v.statements =
                        [k \in DOMAIN kept |->
                            [expr |-> parse(LineParser(in[kept[k]],
                                                       0))[1].v.expr,
                             line |-> in[kept[k]],
                             line_no |-> kept[k] - 1]]

\* parse_module has failed on the second of three lines, after a skipped
\* line and before another offending line
C23_Witness ==
    /\ parsed # None
    /\ ~parsed[1].ok
    /\ Len(input[1]) = 3
    /\ Skipped(input[1][1])
    /\ Offending(input[1][2])
    /\ Offending(input[1][3])
    /\ input[1][2] # input[1][3]
    /\ parsed[1].e.line_no = 1

\* the names declared by the vertex statements before the k-th statement
DeclaredBefore(stmts, k) ==
    { stmts[i].expr.name :
        i \in { i \in 1 .. k - 1 : stmts[i].expr.ty = "Vertex" } }

\* << k, j >>: the j-th argument of the k-th statement, a line or a
\* triangle, is not declared by an earlier vertex statement
UndeclaredUses(stmts) ==
    { u \in (DOMAIN stmts) \X (1 .. 3) :
        /\ stmts[u[1]].expr.ty # "Vertex"
        /\ u[2] <= Len(stmts[u[1]].expr.v)
        /\ stmts[u[1]].expr.v[u[2]] \notin DeclaredBefore(stmts, u[1]) }

\* C22: type_check returns Ok exactly when every identifier a line or a
\* triangle statement refers to is declared by an earlier vertex statement;
\* otherwise it returns the undeclared-variable error that names the first
\* such identifier, by statement and then by argument, with the text of its
\* statement and the index from 0 of that line in the input
C22_UndeclaredFirstOrOk ==
    checked # None =>
        LET stmts == parsed[1].v.statements
            uses == UndeclaredUses(stmts)
        IN  IF uses = {}
            THEN checked[1].ok
            ELSE LET u == CHOOSE u \in uses :
                              \A w \in uses :
                                  \/ u[1] < w[1]
                                  \/ u[1] = w[1] /\ u[2] <= w[2]
                 IN  /\ checked[1] =
                            Err([line |-> stmts[u[1]].line,
                                 line_no |-> stmts[u[1]].line_no,
                                 kind |-> << "UndeclaredVariable",
                                             stmts[u[1]].expr.v[u[2]] >>])
                     /\ input[1][checked[1].e.line_no + 1]
                            = checked[1].e.line

\* type_check has returned the error for b of "line b c", a statement on the
\* third line, after a skipped line, with neither b nor c declared
C22_Witness ==
    /\ checked # None
    /\ ~checked[1].ok
    /\ checked[1].e.line = << "line", "b", "c" >>
    /\ checked[1].e.line_no = 2
    /\ Skipped(input[1][1]) \/ Skipped(input[1][2])
    /\ Cardinality({ u \in UndeclaredUses(parsed[1].v.statements) :
                       u[1] = Len(parsed[1].v.statements) }) = 2

\* the position given by the last vertex statement before the k-th that
\* declares name
LatestBefore(stmts, k, name) ==
    LET ds == { i \in 1 .. k - 1 :
                  stmts[i].expr.ty = "Vertex" /\ stmts[i].expr.name = name }
    IN  stmts[CHOOSE i \in ds : \A j \in ds : j <= i].expr.pos

\* C30: render of a module type_check returned Ok for does not panic on a
\* name missing from its environment, and draws every line and triangle
\* statement, in order, with the positions given by the latest vertex
\* statements before it that declare its arguments
C30_RenderFindsLatestVertices ==
    draws # None =>
        LET stmts == parsed[1].v.statements
            drawn == Indices(stmts, LAMBDA s : s.expr.ty # "Vertex")
        IN  /\ ~panicked
            /\ UndeclaredUses(stmts) = {}
            /\ draws[1].calls =
                   [k \in DOMAIN drawn |->
                       LET stmt == stmts[drawn[k]]
                       IN  [fn |-> IF stmt.expr.ty = "Line" THEN "line"
                                   ELSE IF draws[1].only_wireframe
                                   THEN "triangle"
                                   ELSE "fill_triangle",
                            v |-> [j \in DOMAIN stmt.expr.v |->
                                      LatestBefore(stmts, drawn[k],
                                                   stmt.expr.v[j])]]]

\* render has drawn a triangle whose vertex was declared twice, with
\* different positions
C30_Witness ==
    /\ draws # None
    /\ Len(draws[1].calls) = 1
    /\ \E i, j \in DOMAIN parsed[1].v.statements :
           /\ i < j
           /\ parsed[1].v.statements[i].expr.ty = "Vertex"
           /\ parsed[1].v.statements[j].expr.ty = "Vertex"
           /\ parsed[1].v.statements[i].expr.name
                  = parsed[1].v.statements[j].expr.name
           /\ parsed[1].v.statements[i].expr.pos
                  # parsed[1].v.statements[j].expr.pos
           /\ draws[1].calls[1].v[1] = parsed[1].v.statements[j].expr.pos

\* C24: parse_binary returns an error, and no mesh, whenever the file is
\* shorter than its header, its triangle count and its attribute byte
\* counts declare; when it returns a mesh, the mesh has as many facets as
\* the file declares
C24_TruncatedIsReadError ==
    stl # None =>
        /\ reader[1].len < FullLen(reader[1].attrs, 1) => ~stl[1].ok
        /\ stl[1].ok => Len(stl[1].v.facets) = reader[1].ntriangles

=============================================================================
